---- MODULE Spec2Model ----
(***************************************************************************)
(* A model of pyswip_notebook/prolog_notebook.py: IsolatedProlog, a        *)
(* wrapper that gives every instance its own Prolog module, stages         *)
(* knowledge bases through temporary files, and normalizes query results.  *)
(*                                                                         *)
(* Text is modelled as sequences of tokens (module name, ":", a goal ...)  *)
(* so that the string building of the code (join, +) is concatenation and  *)
(* the engine has to take the text apart again.  Python values are tagged  *)
(* records: Atom, Functor (pyswip objects), dict, list, tuple, str, int.   *)
(***************************************************************************)
EXTENDS Integers, Sequences, FiniteSets, TLC

VARIABLES
    \* ---- the host and the shared engine ----
    platform,   \* platform.system(): "Windows" or "Linux"
    fs,         \* storage: path -> content (a sequence of tokens)
    db,         \* the engine's clause store: module -> sequence of clauses
    cursors,    \* the engine's open query cursors (ids of their generators:
                \* 1 of the generator the caller holds, 0 of a wrapper's own)
    \* ---- IsolatedProlog instances and their caller ----
    created,    \* the sessions constructed so far
    gen,        \* the query generator the caller holds in its variable g
    call,       \* the call that has just ended and how, until the caller
                \* resumes (NoCall: the caller is between calls)
    kb,         \* per namespace, the clauses its own sessions put there
    \* ---- TermNormalizer harness (SpecNorm) ----
    term,       \* the value handed to _normalize_values
    norm,       \* _normalize_values(term), once computed
    renorm,     \* _normalize_values(norm), once computed
    npc         \* "input" | "normalized" | "renormalized" ("off" in Spec)

mvars == <<platform, fs, db, cursors, created, gen, call, kb>>
nvars == <<term, norm, renorm, npc>>
vars == <<mvars, nvars>>

(***************************************************************************)
(* Bounds                                                                  *)
(***************************************************************************)
\* Largest number of nodes (leaves and containers) of a normalizer input.
MaxSize == 3
\* Sessions constructed, clauses the engine holds and temporary files left on
\* storage, in total.
MaxObjects == 3

(***************************************************************************)
(* Python values                                                           *)
(***************************************************************************)
Atom(s) == [tag |-> "Atom", value |-> s]
Functor(n, a) == [tag |-> "Functor", name |-> n, args |-> a]
PyDict(m) == [tag |-> "dict", map |-> m]
PyList(e) == [tag |-> "list", elems |-> e]
PyTuple(e) == [tag |-> "tuple", items |-> e]
PyStr(s) == [tag |-> "str", s |-> s]
PyInt(n) == [tag |-> "int", n |-> n]
NoValue == [tag |-> "none"]

\* sep.join(parts) for a sequence of strings
RECURSIVE Join(_, _)
Join(parts, sep) ==
    IF Len(parts) = 0 THEN ""
    ELSE IF Len(parts) = 1 THEN parts[1]
    ELSE parts[1] \o sep \o Join(Tail(parts), sep)

\* The keys of a dict in its iteration order: one fixed order per key set.
RECURSIVE KeySeq(_)
KeySeq(keys) ==
    IF keys = {} THEN <<>>
    ELSE LET k == CHOOSE x \in keys : TRUE
         IN  <<k>> \o KeySeq(keys \ {k})

\* repr(v) and str(v) of Python, for the values normalization produces
RECURSIVE Repr(_)
Repr(v) ==
    CASE v.tag = "str" -> "'" \o v.s \o "'"
      [] v.tag = "int" -> ToString(v.n)
      [] v.tag = "list" ->
            "[" \o Join([i \in 1..Len(v.elems) |-> Repr(v.elems[i])], ", ") \o "]"
      [] v.tag = "tuple" ->
            "(" \o Join([i \in 1..Len(v.items) |-> Repr(v.items[i])], ", ") \o ")"
      [] v.tag = "dict" ->
            LET ks == KeySeq(DOMAIN v.map)
            IN  "{" \o Join([i \in 1..Len(ks) |->
                              "'" \o ks[i] \o "': " \o Repr(v.map[ks[i]])], ", ") \o "}"
      [] OTHER -> "<" \o v.tag \o " object>"

Str(v) == IF v.tag = "str" THEN v.s ELSE Repr(v)

(***************************************************************************)
(* IsolatedProlog._QueryWrapper._normalize_values                          *)
(***************************************************************************)
\* The text with the arguments joined by "," alone
FunctorTextComma(name, normalized_args) ==
    name \o "(" \o Join(normalized_args, ",") \o ")"

\* ', '.join(normalized_args), inside name + '(' ... ')'
FunctorText(name, normalized_args) ==
    name \o "(" \o Join(normalized_args, ", ") \o ")"

\* The normalizer that returns values.name, the Atom object, where the code
\* returns values.name.value for a Functor without arguments
RECURSIVE normalize_values_name(_)
normalize_values_name(values) ==
    IF values.tag = "Atom" THEN PyStr(values.value)
    ELSE IF values.tag = "Functor" THEN
        IF Len(values.args) # 0
        THEN PyStr(FunctorText(values.name,
                 [i \in 1..Len(values.args) |->
                    Str(normalize_values_name(values.args[i]))]))
        ELSE Atom(values.name)
    ELSE IF values.tag = "dict" THEN
        PyDict([k \in DOMAIN values.map |-> normalize_values_name(values.map[k])])
    ELSE IF values.tag = "list" THEN
        PyList([i \in 1..Len(values.elems) |-> normalize_values_name(values.elems[i])])
    ELSE IF values.tag = "tuple" THEN
        PyList([i \in 1..Len(values.items) |-> normalize_values_name(values.items[i])])
    ELSE values

RECURSIVE normalize_values(_)
normalize_values(values) ==
    IF values.tag = "Atom" THEN PyStr(values.value)
    ELSE IF values.tag = "Functor" THEN
        IF Len(values.args) # 0
        THEN PyStr(FunctorText(values.name,
                 [i \in 1..Len(values.args) |-> Str(normalize_values(values.args[i]))]))
        ELSE PyStr(values.name)
    ELSE IF values.tag = "dict" THEN
        PyDict([k \in DOMAIN values.map |-> normalize_values(values.map[k])])
    ELSE IF values.tag = "list" THEN
        PyList([i \in 1..Len(values.elems) |-> normalize_values(values.elems[i])])
    ELSE IF values.tag = "tuple" THEN
        PyList([i \in 1..Len(values.items) |-> normalize_values(values.items[i])])
    ELSE values

(***************************************************************************)
(* Term-shaped inputs, by number of nodes                                  *)
(***************************************************************************)
Leaves == {Atom("michael"), Atom("john"), PyStr("gina"), PyInt(7)}
VarName(i) == "X" \o ToString(i)

Containers(children) ==
    { Functor("father", children), PyList(children), PyTuple(children),
      PyDict([k \in {VarName(i) : i \in 1..Len(children)} |->
                children[CHOOSE i \in 1..Len(children) : VarName(i) = k]]) }

RECURSIVE TermsOfSize(_), SeqsOfSize(_)
SeqsOfSize(n) ==
    IF n = 0 THEN {<<>>}
    ELSE UNION { { <<t>> \o rest : t \in TermsOfSize(k), rest \in SeqsOfSize(n - k) }
                 : k \in 1..n }
TermsOfSize(n) ==
    IF n = 1 THEN Leaves \cup Containers(<<>>)
    ELSE UNION { Containers(c) : c \in SeqsOfSize(n - 1) }

TermShaped == UNION { TermsOfSize(n) : n \in 1..MaxSize }

(***************************************************************************)
(* The engine (pyswip / SWI-Prolog), as the wrapper's collaborator         *)
(***************************************************************************)
\* Modules the engine holds before any session exists.
ReservedModules == {"user", "system"}
\* The ground facts and the goals of the model.
Facts == {"bird(tweety)", "bird(polly)"}
Pattern == "bird(X)"
\* A term the engine cannot read.
Malformed == "bird("

WellFormed(t) == t \in Facts \cup {Pattern}
ArgOf(fact) == IF fact = "bird(tweety)" THEN "tweety" ELSE "polly"
Matches(goal, clause) == goal = clause \/ goal = Pattern

\* The raw result of one solution: the list of =(Variable, Value) bindings.
BindingList(goal, clause) ==
    IF goal = Pattern
    THEN PyList(<<Functor("=", <<Atom("X"), Atom(ArgOf(clause))>>)>>)
    ELSE PyList(<<>>)

DbOf(d, m) == IF m \in DOMAIN d THEN d[m] ELSE <<>>
SetDb(d, m, cl) == [x \in DOMAIN d \cup {m} |-> IF x = m THEN cl ELSE d[x]]

RECURSIVE RemoveFirst(_, _)
RemoveFirst(cl, f) ==
    IF cl = <<>> THEN <<>>
    ELSE IF Head(cl) = f THEN Tail(cl)
    ELSE <<Head(cl)>> \o RemoveFirst(Tail(cl), f)

RECURSIVE RemoveAll(_, _)
RemoveAll(cl, f) ==
    IF cl = <<>> THEN <<>>
    ELSE IF Head(cl) = f THEN RemoveAll(Tail(cl), f)
    ELSE <<Head(cl)>> \o RemoveAll(Tail(cl), f)

RECURSIVE Solutions(_, _)
Solutions(goal, cl) ==
    IF cl = <<>> THEN <<>>
    ELSE (IF Matches(goal, Head(cl)) THEN <<BindingList(goal, Head(cl))>> ELSE <<>>)
         \o Solutions(goal, Tail(cl))

\* The load of a text succeeds when the text is clauses, each ended by ".";
\* any other text stands for a knowledge base whose load the engine reports
\* as an error.
RECURSIVE Loadable(_)
Loadable(content) ==
    \/ content = <<>>
    \/ /\ Len(content) >= 2
       /\ content[1] \in Facts
       /\ content[2] = "."
       /\ Loadable(SubSeq(content, 3, Len(content)))

RECURSIVE ClausesOf(_)
ClausesOf(content) ==
    IF Len(content) < 2 THEN <<>>
    ELSE <<content[1]>> \o ClausesOf(SubSeq(content, 3, Len(content)))

Builtins == {"asserta((", "assertz((", "dynamic((", "retract((", "retractall(("}

\* What a builtin does to the clause list of its module, and whether it succeeds.
BuiltinEffect(builtin, f, cl) ==
    CASE builtin = "asserta((" -> [ok |-> TRUE, cl |-> <<f>> \o cl]
      [] builtin = "assertz((" -> [ok |-> TRUE, cl |-> Append(cl, f)]
      [] builtin = "dynamic((" -> [ok |-> TRUE, cl |-> cl]
      [] builtin = "retract((" ->
            [ok |-> \E i \in 1..Len(cl) : cl[i] = f, cl |-> RemoveFirst(cl, f)]
      [] builtin = "retractall((" -> [ok |-> TRUE, cl |-> RemoveAll(cl, f)]

\* The engine reads "module:goal": the goal runs in that module, and in
\* "user" when the text names none.
ParseGoal(text) ==
    LET qualified == Len(text) >= 2 /\ text[2] = ":"
    IN  [module |-> IF qualified THEN text[1] ELSE "user",
         body   |-> IF qualified THEN SubSeq(text, 3, Len(text)) ELSE text]

\* executeGoal: the engine's answer to a goal text: an error, or the store
\* after the goal's side effects and the raw results of its solutions in the
\* engine's enumeration order (none: the goal failed).
EngineRun(text, d, files) ==
    LET g == ParseGoal(text)
        m == g.module
        b == g.body
        cl == DbOf(d, m)
        Err == [status |-> "error", db |-> d, sols |-> <<>>]
        Done(d2, ok) == [status |-> "ok", db |-> d2,
                         sols |-> IF ok THEN <<PyList(<<>>)>> ELSE <<>>]
    IN  IF m = "" \/ Len(b) = 0 THEN Err
        ELSE IF Len(b) = 3 /\ b[1] \in Builtins /\ b[3] = "))." THEN
            IF b[2] \notin Facts THEN Err
            ELSE LET e == BuiltinEffect(b[1], b[2], cl)
                 IN  Done(IF e.ok THEN SetDb(d, m, e.cl) ELSE d, e.ok)
        ELSE IF Len(b) = 3 /\ b[1] = "consult('" /\ b[3] = "')" THEN
            IF b[2] \notin DOMAIN files \/ ~Loadable(files[b[2]]) THEN Err
            ELSE Done(SetDb(d, m, cl \o ClausesOf(files[b[2]])), TRUE)
        ELSE IF Len(b) = 1 /\ WellFormed(b[1]) THEN
            [status |-> "ok", db |-> d, sols |-> Solutions(b[1], cl)]
        ELSE Err

(***************************************************************************)
(* pl.Prolog._QueryWrapper.__call__: the generator of raw results          *)
(***************************************************************************)
NoGen == [state |-> "none"]

\* A generator not pulled yet.  ns and maxresult are what the caller asked
\* for; seen and own are filled when the cursor is opened: the clauses the
\* engine ran the goal against, and the clauses of the caller's namespace.
NewGen(ns, text, maxresult, catcherrors, normalize) ==
    [state |-> "new", ns |-> ns, maxresult |-> maxresult,
     text |-> text, left |-> maxresult,
     catcherrors |-> catcherrors, normalize |-> normalize,
     sols |-> <<>>, err |-> FALSE, pos |-> 0, yielded |-> <<>>,
     seen |-> <<>>, own |-> <<>>]

\* The first pull opens the cursor: the goal is run, with answer r, and its
\* solutions are what the cursor will give.
OpenCursor(g, r, d) ==
    [gen |-> [g EXCEPT !.state = "open", !.sols = r.sols,
                       !.err = (r.status = "error"),
                       !.seen = DbOf(d, ParseGoal(g.text).module)],
     db |-> r.db]

Opened(g, d, files) ==
    IF g.state = "new" THEN OpenCursor(g, EngineRun(g.text, d, files), d)
    ELSE [gen |-> g, db |-> d]

\* The next solution is yielded while the cap allows and the engine has one;
\* otherwise the cursor is closed and the sequence ends, with the engine's
\* error when there is one and it is not to be caught.
NextSolution(o) ==
    LET g1 == o.gen
    IN  IF g1.left # 0 /\ g1.pos < Len(g1.sols)
        THEN [event |-> "yield", raw |-> g1.sols[g1.pos + 1], db |-> o.db,
              gen |-> [g1 EXCEPT !.pos = @ + 1,
                                 !.left = IF @ > 0 THEN @ - 1 ELSE @]]
        ELSE [event |-> IF g1.err /\ ~g1.catcherrors THEN "PrologError"
                        ELSE "StopIteration",
              raw |-> NoValue, db |-> o.db,
              gen |-> [g1 EXCEPT !.state = "done"]]

\* One pull of the raw generator
SuperNext(g, d, files) == NextSolution(Opened(g, d, files))

(***************************************************************************)
(* IsolatedProlog._QueryWrapper.__call__ and IsolatedProlog.query          *)
(***************************************************************************)
\* x.value of a binding =(Variable, Value): the dict {Variable: Value}
BindingValue(x) == PyDict(x.args[1].value :> x.args[2])

\* v.update(r)
DictUpdate(v, r) ==
    [k \in DOMAIN v \cup DOMAIN r |-> IF k \in DOMAIN r THEN r[k] ELSE v[k]]

RECURSIVE UpdateAll(_, _)
UpdateAll(v, rs) ==
    IF rs = <<>> THEN v
    ELSE UpdateAll(DictUpdate(v, normalize_values(Head(rs)).map), Tail(rs))

\* The raw result passed on whatever normalize says
YieldValueRaw(t, normalize) == t

\* What the wrapper yields for the raw result t
YieldValue(t, normalize) ==
    IF normalize
    THEN IF t.tag = "Atom"
         THEN PyStr(t.value)
         ELSE PyDict(UpdateAll(<<>>, [i \in 1..Len(t.elems) |-> BindingValue(t.elems[i])]))
    ELSE t

\* The goal text without the module prefix
QueryTextBare(module_name, query) == query

\* self.module_name + ":" + query
QueryText(module_name, query) == <<module_name, ":">> \o query

\* The raw generator asked for every solution, whatever the caller's cap
PassedUnlimited(maxresult) == -1

\* The maxresult the wrapper hands to the raw generator
PassedMaxresult(maxresult) == maxresult

\* What the wrapper makes of the raw generator's step n
Wrapped(n) ==
    IF n.event = "yield"
    THEN [n EXCEPT !.raw = YieldValue(@, n.gen.normalize),
                   !.gen.yielded = Append(@, YieldValue(n.raw, n.gen.normalize))]
    ELSE n

\* One pull of the wrapper's generator
WrapperNext(g, d, files) == Wrapped(SuperNext(g, d, files))

\* The cursors left when nobody refers to generator id any more: finalizing
\* the generator runs the raw generator's cleanup, which closes its cursor.
DropGenerator(cur, id) == cur \ {id}

\* A wrapper that kept its generator alive after next() returned
KeepTemporary(cur) == cur

\* The wrappers keep no reference to the generator they pull from: it is
\* dropped as soon as next() has returned.
DiscardTemporary(cur) == DropGenerator(cur, 0)

\* What the engine said of a generator's goal
EngineStatus(g) ==
    IF g.err THEN "error" ELSE IF g.sols = <<>> THEN "fail" ELSE "ok"

\* next(self.query(text, catcherrors=catcherrors)): a fresh generator, pulled
\* once and dropped.
PulledOnce(n, cur) ==
    [outcome |-> IF n.event = "yield" THEN "returned" ELSE n.event,
     db |-> n.db,
     text |-> n.gen.text,
     engine |-> EngineStatus(n.gen),
     cursors |-> IF n.event = "yield" THEN DiscardTemporary(cur \cup {0}) ELSE cur]

NextOfQuery(module_name, text, catcherrors, d, files, cur) ==
    PulledOnce(WrapperNext(NewGen(module_name, QueryText(module_name, text),
                                  PassedMaxresult(-1), catcherrors, TRUE),
                           d, files),
               cur)

(***************************************************************************)
(* IsolatedProlog.__init__                                                 *)
(***************************************************************************)
\* Module arguments a caller passes; NoneArg stands for module=None.
ModuleArgs == {"", "user"}
NoneArg == "<None>"

\* uuid.uuid4().hex gives a value no earlier draw gave: prefix, the i-th
\* value and suffix make the name it is used in, and the first value whose
\* name is not among names is the draw.
FreshIndex(names, prefix, suffix) ==
    CHOOSE i \in 1..(Cardinality(names) + 1) :
        /\ (prefix \o ToString(i) \o suffix) \notin names
        /\ \A j \in 1..(i - 1) : (prefix \o ToString(j) \o suffix) \in names

ModuleHex(d) == ToString(FreshIndex(DOMAIN d, "m", ""))

\* The name without the random part
ModuleNameFixed(given, module, hex) == IF ~given THEN "m" ELSE module

\* self.module_name
ModuleName(given, module, hex) == IF ~given THEN "m" \o hex ELSE module

\* pl.newModule(name): the module of that name, created when there is none
NewModule(d, name) == IF name \in DOMAIN d THEN d ELSE SetDb(d, name, <<>>)

\* A call that has ended, and how: returned, or the exception it raised.  Of
\* __init__ also the namespace it chose; of consult its catcherrors, the goal
\* text handed to the engine, what the engine said of the load and the
\* staging events in order; of the pull that ends an enumeration, the
\* generator as it finished.
NoCall == [op |-> "none", outcome |-> "none", ns |-> "", text |-> <<>>,
           catcherrors |-> FALSE, engine |-> "none", events |-> <<>>,
           gen |-> NoGen]
Called(op, outcome) == [NoCall EXCEPT !.op = op, !.outcome = outcome]
AtRest == call = NoCall

RECURSIVE SumLen(_, _)
SumLen(d, ms) ==
    IF ms = {} THEN 0
    ELSE LET m == CHOOSE x \in ms : TRUE IN Len(d[m]) + SumLen(d, ms \ {m})

\* The bound of the model on sessions, clauses and files
Fits(sessions, d, files) ==
    Cardinality(sessions) + SumLen(d, DOMAIN d) + Cardinality(DOMAIN files) - 1
        <= MaxObjects

New ==
    /\ AtRest
    /\ \E given \in BOOLEAN :
       \E module \in (IF given THEN ModuleArgs ELSE {NoneArg}) :
          LET name == ModuleName(given, module, ModuleHex(db))
          IN  /\ created' = created \cup
                    {[given |-> given, module |-> module, module_name |-> name]}
              /\ db' = NewModule(db, name)
              /\ call' = [Called("init", "returned") EXCEPT !.ns = name]
    /\ Fits(created', db', fs)
    /\ UNCHANGED <<platform, fs, cursors, gen, kb, nvars>>

(***************************************************************************)
(* asserta, assertz, dynamic, retract, retractall                          *)
(***************************************************************************)
\* The arguments of the calls of the model: every fact with the default
\* catcherrors=False, and a term the engine cannot read under both policies.
BuiltinArgs ==
    [term : Facts, catcherrors : {FALSE}] \cup [term : {Malformed}, catcherrors : BOOLEAN]

\* term.join([builtin, "))."])
BuiltinText(builtin, t) == <<builtin, t, "))." >>

CallBuiltin(op, builtin, s, t, catcherrors) ==
    /\ AtRest
    /\ \E r \in {NextOfQuery(s.module_name, BuiltinText(builtin, t), catcherrors,
                              db, fs, cursors)} :
          /\ Fits(created, r.db, fs)
          /\ db' = r.db
          /\ cursors' = r.cursors
          /\ call' = Called(op, r.outcome)
          /\ kb' = IF r.outcome = "returned"
                   THEN SetDb(kb, s.module_name,
                              BuiltinEffect(builtin, t, DbOf(kb, s.module_name)).cl)
                   ELSE kb
    /\ UNCHANGED <<platform, fs, created, gen, nvars>>

asserta ==
    \E s \in created, a \in BuiltinArgs :
        CallBuiltin("asserta", "asserta((", s, a.term, a.catcherrors)

assertz ==
    \E s \in created, a \in BuiltinArgs :
        CallBuiltin("assertz", "assertz((", s, a.term, a.catcherrors)

dynamic ==
    \E s \in created, a \in BuiltinArgs :
        CallBuiltin("dynamic", "dynamic((", s, a.term, a.catcherrors)

retract ==
    \E s \in created, a \in BuiltinArgs :
        CallBuiltin("retract", "retract((", s, a.term, a.catcherrors)

retractall ==
    \E s \in created, a \in BuiltinArgs :
        CallBuiltin("retractall", "retractall((", s, a.term, a.catcherrors)

(***************************************************************************)
(* query, and the caller's use of the generator it returns                 *)
(***************************************************************************)
\* The query calls of the model: the goals with a variable, without one and
\* unreadable, each option set on its own against the defaults (-1, True, True).
QueryArgs(goal, maxresult, catcherrors, normalize) ==
    [goal |-> goal, maxresult |-> maxresult, catcherrors |-> catcherrors,
     normalize |-> normalize]
QueryCalls ==
    { QueryArgs(Pattern, -1, TRUE, TRUE),
      QueryArgs(Pattern, 0, TRUE, TRUE),
      QueryArgs(Pattern, 1, TRUE, TRUE),
      QueryArgs(Pattern, -1, TRUE, FALSE),
      QueryArgs("bird(tweety)", -1, TRUE, TRUE),
      QueryArgs("bird(tweety)", 1, TRUE, TRUE),
      QueryArgs(Malformed, -1, TRUE, TRUE),
      QueryArgs(Malformed, -1, FALSE, TRUE) }

\* g = session.query(...): the caller's variable g now holds the new
\* generator, and the one it held is dropped.
query ==
    /\ AtRest
    /\ \E s \in created, c \in QueryCalls :
          /\ gen' = [NewGen(s.module_name, QueryText(s.module_name, <<c.goal>>),
                            PassedMaxresult(c.maxresult), c.catcherrors, c.normalize)
                         EXCEPT !.maxresult = c.maxresult]
          /\ call' = Called("query", "returned")
    /\ cursors' = DropGenerator(cursors, 1)
    /\ UNCHANGED <<platform, fs, db, created, kb, nvars>>

\* The generator g after a pull, with the session's own clauses as they were
\* when its cursor was opened.
Held(g) == IF gen.state = "new" THEN [g EXCEPT !.own = DbOf(kb, gen.ns)] ELSE g

\* next(g).  A generator that has ended holds nothing any more: the caller
\* sees the StopIteration or the error, and g is as good as gone.
Pull ==
    /\ AtRest
    /\ gen.state \in {"new", "open"}
    /\ \E n \in {WrapperNext(gen, db, fs)} :
          /\ db' = n.db
          /\ IF n.event = "yield"
             THEN /\ gen' = Held(n.gen)
                  /\ cursors' = cursors \cup {1}
                  /\ call' = Called("next", "yield")
             ELSE /\ gen' = NoGen
                  /\ cursors' = cursors \ {1}
                  /\ call' = [Called("next", n.event) EXCEPT !.gen = Held(n.gen)]
    /\ UNCHANGED <<platform, fs, created, kb, nvars>>

\* del g
Drop ==
    /\ AtRest
    /\ gen # NoGen
    /\ gen' = NoGen
    /\ cursors' = DropGenerator(cursors, 1)
    /\ UNCHANGED <<platform, fs, db, created, call, kb, nvars>>

(***************************************************************************)
(* consult and temp_file                                                   *)
(***************************************************************************)
UserFiles == "kb.pl" :> <<"bird(polly)", ".">>
Paths == {"kb.pl", "missing.pl"}
Texts == { <<"bird(tweety)", ".">>, <<Malformed, ".">> }
TempFiles(files) == DOMAIN files \ DOMAIN UserFiles

\* The body with the load issued before the text is flushed
ConsultBodyLoadFirst == <<"write", "load", "flush", "seek">>

\* The statements of consult inside "with temp_file(temp_dir) as f", in order
ConsultBody == <<"write", "flush", "seek", "load">>

\* The name temp_file gives its file (temp_dir is None): uuid4().hex, or the
\* name NamedTemporaryFile picks, which no file on storage has.
TempName(files, pltfrm) ==
    IF pltfrm = "Windows"
    THEN ToString(FreshIndex(DOMAIN files, "", ""))
    ELSE "tmp" \o ToString(FreshIndex(DOMAIN files, "tmp", ".pl")) \o ".pl"

Remove(files, path) == [p \in DOMAIN files \ {path} |-> files[p]]

\* temp_file up to its yield: the file exists, empty, and its handle is open
TempFileEnter(files, fname) == files @@ (fname :> <<>>)

\* temp_file after its yield, when the body of the with statement was left
\* normally (exc = "none") or by an exception
TempFileLeave(files, fname, pltfrm, exc) ==
    IF pltfrm = "Windows"
    THEN IF exc = "none"
         THEN [fs |-> Remove(files, fname), events |-> <<"close", "remove">>]
         ELSE [fs |-> files, events |-> <<"close">>]
    ELSE [fs |-> Remove(files, fname), events |-> <<"close", "remove">>]

\* fname.join(["consult('", "')"])
ConsultGoal(fname) == <<"consult('", fname, "')">>

\* The frame st after next(self.query(...)) ended as r
Loaded(st, r) ==
    [st EXCEPT !.db = r.db, !.cursors = r.cursors,
               !.engine = r.engine, !.text = r.text,
               !.exc = IF r.outcome = "returned" THEN "none" ELSE r.outcome,
               !.events = Append(@, "load")]

\* One statement of the body, on the frame st of the call
ExecStatement(stmt, st, ns, text, catcherrors, fname) ==
    CASE stmt = "write" ->
            [st EXCEPT !.buffer = text, !.events = Append(@, "write")]
      [] stmt = "flush" ->
            [st EXCEPT !.fs = [@ EXCEPT ![fname] = st.buffer],
                       !.events = Append(@, "flush")]
      [] stmt = "seek" ->
            [st EXCEPT !.events = Append(@, "seek")]
      [] stmt = "load" ->
            Loaded(st, NextOfQuery(ns, ConsultGoal(fname), catcherrors,
                                   st.db, st.fs, st.cursors))

RECURSIVE RunBody(_, _, _, _, _, _)
RunBody(st, i, ns, text, catcherrors, fname) ==
    IF i > Len(ConsultBody) \/ st.exc # "none" THEN st
    ELSE RunBody(ExecStatement(ConsultBody[i], st, ns, text, catcherrors, fname),
                 i + 1, ns, text, catcherrors, fname)

\* consult from "pltfrm = platform.system()" on, with the text in hand
\* The frame of the call when the with statement is entered
Entered(files, fname) ==
    [fs |-> TempFileEnter(files, fname), buffer |-> <<>>, db |-> db,
     cursors |-> cursors, engine |-> "none", exc |-> "none",
     text |-> <<>>, events |-> <<"create">>]

Stage(s, text, catcherrors) ==
    \E fname \in {TempName(fs, platform)} :
    \E st \in {RunBody(Entered(fs, fname), 1, s.module_name, text, catcherrors, fname)} :
    \E l \in {TempFileLeave(st.fs, fname, platform, st.exc)} :
        /\ Fits(created, st.db, l.fs)
        /\ fs' = l.fs
        /\ db' = st.db
        /\ cursors' = st.cursors
        /\ kb' = IF st.exc = "none"
                 THEN SetDb(kb, s.module_name,
                            DbOf(kb, s.module_name) \o ClausesOf(text))
                 ELSE kb
        /\ call' = [Called("consult", IF st.exc = "none" THEN "returned" ELSE st.exc)
                        EXCEPT !.catcherrors = catcherrors, !.text = st.text,
                               !.engine = st.engine,
                               !.events = st.events \o l.events]
        /\ UNCHANGED <<platform, created, gen, nvars>>

\* consult(knowledge_base, file=False, ...)
consultText ==
    /\ AtRest
    /\ \E s \in created, text \in Texts, catcherrors \in BOOLEAN :
          Stage(s, text, catcherrors)

\* consult(knowledge_base, file=True, ...): the text is read from the path
consultFile ==
    /\ AtRest
    /\ \E s \in created, path \in Paths, catcherrors \in BOOLEAN :
          IF path \in DOMAIN fs
          THEN Stage(s, fs[path], catcherrors)
          ELSE /\ call' = [Called("consult", "FileNotFoundError")
                              EXCEPT !.catcherrors = catcherrors]
               /\ UNCHANGED <<platform, fs, db, cursors, created, gen, kb, nvars>>

\* The caller goes on after the call
Resume ==
    /\ ~AtRest
    /\ call' = NoCall
    /\ UNCHANGED <<platform, fs, db, cursors, created, gen, kb, nvars>>

(***************************************************************************)
(* Spec: sessions, their caller and the shared engine                      *)
(***************************************************************************)
NormIdle ==
    /\ term = NoValue
    /\ norm = NoValue
    /\ renorm = NoValue
    /\ npc = "off"

MainInit ==
    /\ fs = UserFiles
    /\ db = [m \in ReservedModules |-> <<>>]
    /\ cursors = {}
    /\ created = {}
    /\ gen = NoGen
    /\ call = NoCall
    /\ kb = [m \in {} |-> <<>>]

Init ==
    /\ platform \in {"Windows", "Linux"}
    /\ MainInit
    /\ NormIdle

Next ==
    \/ New
    \/ asserta
    \/ assertz
    \/ dynamic
    \/ retract
    \/ retractall
    \/ query
    \/ Pull
    \/ Drop
    \/ consultText
    \/ consultFile
    \/ Resume

Spec == Init /\ [][Next]_vars

(***************************************************************************)
(* SpecNorm: the normalizer applied to every Term-shaped input, twice      *)
(***************************************************************************)
NormInit ==
    /\ platform = "Linux"
    /\ MainInit
    /\ term \in TermShaped
    /\ norm = NoValue
    /\ renorm = NoValue
    /\ npc = "input"

Normalize ==
    /\ npc = "input"
    /\ norm' = normalize_values(term)
    /\ npc' = "normalized"
    /\ UNCHANGED <<term, renorm, mvars>>

Renormalize ==
    /\ npc = "normalized"
    /\ renorm' = normalize_values(norm)
    /\ npc' = "renormalized"
    /\ UNCHANGED <<term, norm, mvars>>

NormNext == Normalize \/ Renormalize

SpecNorm == NormInit /\ [][NormNext]_vars

(***************************************************************************)
(* Properties                                                              *)
(***************************************************************************)
Namespaces == {s.module_name : s \in created}
SessionOps == {"asserta", "assertz", "dynamic", "retract", "retractall",
               "consult", "query"}

\* The text is "ns:goal"
Qualified(text, ns) == Len(text) >= 3 /\ text[1] = ns /\ text[2] = ":"

\* The caller has just seen an enumeration end
Finished == call.op = "next" /\ call.gen.state = "done"

Min(a, b) == IF a <= b THEN a ELSE b
Capped(maxresult, n) == IF maxresult < 0 THEN n ELSE Min(maxresult, n)
Count(cl, f) == Len(SelectSeq(cl, LAMBDA c : c = f))

Has(e, x) == \E i \in 1..Len(e) : e[i] = x
Before(e, a, b) == \E i, j \in 1..Len(e) : e[i] = a /\ e[j] = b /\ i < j

\* A generator ran its goal as "ns:goal" against the clauses of its own
\* namespace and nothing else, and its solutions are those of these clauses.
GenIsolated(g) ==
    g.state # "none" =>
        /\ Qualified(g.text, g.ns)
        /\ g.state # "new" =>
              /\ g.seen = g.own
              /\ (~g.err => g.sols = Solutions(g.text[3], g.own))

\* C1: sessions with distinct namespaces never share clauses or results: the
\* clauses the engine holds for a session's namespace are exactly those the
\* session's own calls put there, whatever the other sessions did; nothing is
\* stored in any other module; a query sees the clauses of its own namespace
\* only; and every goal is handed to the engine as "<namespace>:<goal>".
C1_Isolation ==
    /\ \A s \in created : DbOf(db, s.module_name) = DbOf(kb, s.module_name)
    /\ \A m \in DOMAIN db \ Namespaces : db[m] = <<>>
    /\ GenIsolated(gen)
    /\ GenIsolated(call.gen)
    /\ (call.op = "consult" /\ call.text # <<>>) =>
          \E s \in created : Qualified(call.text, s.module_name)

\* Session a holds a clause, and a query for every bird through session b,
\* run to its end, found none.
C1_Witness ==
    \E a \in created, b \in created :
        /\ a.module_name # b.module_name
        /\ DbOf(db, a.module_name) # <<>>
        /\ Finished
        /\ call.gen.ns = b.module_name
        /\ ~call.gen.err
        /\ call.gen.text[3] = Pattern
        /\ call.gen.yielded = <<>>

\* C2: once a consult call has ended, no staged temporary file is on storage.
C2_NoStagedFileLeft == call.op = "consult" => TempFiles(fs) = {}

\* C3: a consult with catcherrors true whose load the engine rejected returns
\* normally.
C3_FailureAbsorbed ==
    (call.op = "consult" /\ call.catcherrors /\ call.engine = "error") =>
        call.outcome = "returned"

\* A query without variables, normalize true, has been pulled to its end
GroundDone ==
    /\ Finished
    /\ ~call.gen.err
    /\ call.gen.normalize
    /\ call.gen.text[3] \in Facts

\* C4 (as amended): a query without variables yields one {} for every
\* solution the engine has, that is one for every stored clause equal to the
\* goal, up to maxresult, and nothing else; none when the goal is unsatisfied.
C4_GroundQuery ==
    GroundDone =>
        call.gen.yielded =
            [i \in 1..Capped(call.gen.maxresult,
                             Count(call.gen.own, call.gen.text[3])) |-> PyDict(<<>>)]

\* The fact is stored once and the query, uncapped, yielded exactly one {}.
C4_Witness ==
    /\ GroundDone
    /\ call.gen.maxresult = -1
    /\ call.gen.own = <<"bird(tweety)">>
    /\ call.gen.text[3] = "bird(tweety)"
    /\ call.gen.yielded = <<PyDict(<<>>)>>

\* C4 as stated: exactly one {} when the goal is satisfied, none otherwise.
C4_ExactlyOne ==
    (GroundDone /\ call.gen.maxresult = -1) =>
        call.gen.yielded = IF call.gen.sols # <<>> THEN <<PyDict(<<>>)>> ELSE <<>>

\* The Solutions of bird(X) over the clauses cl, in the engine's order
Expected(cl) == [i \in 1..Len(cl) |-> PyDict("X" :> PyStr(ArgOf(cl[i])))]

PatternQuery(g) ==
    /\ g.state \in {"open", "done"}
    /\ ~g.err
    /\ g.normalize
    /\ g.text[3] = Pattern

\* C5: a query with maxresult k >= 1, pulled to its end, has yielded the
\* first min(k, n) of the engine's n solutions in the engine's order, and all
\* n with the default -1; nothing is computed before the first pull and every
\* pull computes one Solution: what was yielded so far is a prefix of them.
C5_MaxResults ==
    /\ (Finished /\ PatternQuery(call.gen) /\ call.gen.maxresult # 0) =>
          call.gen.yielded =
              SubSeq(Expected(call.gen.own), 1,
                     Capped(call.gen.maxresult, Len(call.gen.own)))
    /\ gen.state = "new" => (gen.sols = <<>> /\ gen.pos = 0 /\ gen.yielded = <<>>)
    /\ gen.state = "open" => gen.pos = Len(gen.yielded)
    /\ PatternQuery(gen) =>
          gen.yielded = SubSeq(Expected(gen.own), 1, Len(gen.yielded))

\* maxresult = 1 on a goal with two solutions yielded the first, and only it.
C5_Witness ==
    /\ Finished
    /\ PatternQuery(call.gen)
    /\ call.gen.maxresult = 1
    /\ Len(call.gen.own) = 2
    /\ call.gen.yielded = SubSeq(Expected(call.gen.own), 1, 1)

\* C6: normalizing a normalized value changes nothing.
C6_Idempotent == npc = "renormalized" => renorm = norm

\* A mapping with a compound among its values has been normalized twice.
C6_Witness ==
    /\ npc = "renormalized"
    /\ term.tag = "dict"
    /\ \E k \in DOMAIN term.map : term.map[k].tag = "Functor"

\* The text the claim gives for a term: the name, and for n >= 1 arguments
\* "(", the arguments' texts with ", " between them, ")".
RECURSIVE CommaSeparated(_)
CommaSeparated(parts) ==
    IF Len(parts) = 0 THEN ""
    ELSE IF Len(parts) = 1 THEN parts[1]
    ELSE CommaSeparated(SubSeq(parts, 1, Len(parts) - 1)) \o ", " \o parts[Len(parts)]

RECURSIVE Rendered(_)
Rendered(t) ==
    CASE t.tag = "Atom" -> t.value
      [] t.tag = "str" -> t.s
      [] t.tag = "int" -> ToString(t.n)
      [] t.tag = "Functor" ->
            IF Len(t.args) = 0 THEN t.name
            ELSE t.name \o "(" \o
                 CommaSeparated([i \in 1..Len(t.args) |-> Rendered(t.args[i])]) \o ")"
      [] OTHER -> Str(normalize_values(t))

\* C7: a compound normalizes to its name followed, when it has arguments, by
\* "(", the normalized and stringified arguments joined by ", " in order, and
\* ")", nested compounds likewise; father(michael, john) gives
\* "father(michael, john)".
C7_Compound ==
    (npc # "input" /\ term.tag = "Functor") =>
        /\ norm = PyStr(Rendered(term))
        /\ term = Functor("father", <<Atom("michael"), Atom("john")>>) =>
              norm = PyStr("father(michael, john)")

\* father(michael, john) has been normalized.
C7_Witness ==
    /\ npc = "normalized"
    /\ term = Functor("father", <<Atom("michael"), Atom("john")>>)
    /\ norm.tag = "str"

\* C8 (as amended): a supplied namespace is used as it is, whatever it is,
\* and the session is created; without one the namespace is a generated,
\* non-empty name that no earlier session and no reserved module has.
C8_NoValidation ==
    /\ [](/\ \A s \in created :
               /\ s.given => s.module_name = s.module
               /\ ~s.given => (s.module_name # "" /\ s.module_name \notin ReservedModules)
          /\ call.op = "init" => (call.outcome = "returned" /\ call.ns \in Namespaces))
    /\ [][call'.op = "init" =>
             \A s \in created' :
                 (~s.given /\ s.module_name = call'.ns) => s \notin created]_vars

\* Two sessions made without a namespace, and one made on the empty string.
C8_Witness ==
    /\ \E a \in created, b \in created : ~a.given /\ ~b.given /\ a # b
    /\ \E c \in created : c.given /\ c.module_name = ""

\* C8 as stated: no session exists on an empty or a reserved namespace.
C8_Validated ==
    \A s \in created :
        s.given => (s.module_name # "" /\ s.module_name \notin ReservedModules)

\* C9 (as amended): the cursor of a wrapper's own generator is released as
\* soon as the wrapper has pulled its one element, and the cursor of a
\* generator the caller dropped, replaced or exhausted is released too: the
\* only cursor ever open is that of a generator the caller still holds,
\* has pulled from and has not exhausted.
C9_CursorsReleased ==
    /\ cursors \subseteq {1}
    /\ 1 \in cursors <=> gen.state = "open"

\* assertz pulled one element from its own generator and dropped it, while
\* the caller holds a generator in mid-enumeration.
C9_Witness ==
    /\ call.op = "assertz"
    /\ call.outcome = "returned"
    /\ gen.state = "open"
    /\ cursors = {1}

\* C9 as stated: no cursor is open when an operation on a session begins.
C9_NoCursorAtNextOperation ==
    [][call'.op \in SessionOps => cursors = {}]_vars

\* A consult that went as far as the load
Staged == call.op = "consult" /\ Has(call.events, "load")

\* C10 (as amended): in every consult the file is created, the text written
\* and flushed, then the load issued, with the handle still open on either
\* platform; the handle is closed after the load has ended, and the file, when
\* it is removed, is removed after that.
C10_StagingOrder ==
    Staged =>
        /\ call.events[1] = "create"
        /\ Before(call.events, "create", "write")
        /\ Before(call.events, "write", "flush")
        /\ Before(call.events, "flush", "load")
        /\ Before(call.events, "load", "close")
        /\ ~Before(call.events, "close", "load")
        /\ Has(call.events, "remove") => Before(call.events, "close", "remove")

\* A consult on Windows returned and its file has been removed.
C10_Witness ==
    /\ Staged
    /\ platform = "Windows"
    /\ call.outcome = "returned"
    /\ Has(call.events, "remove")

\* C10 as stated: flushed before the load, and on the manual strategy closed
\* before the load; removed only after the load.
C10_ClosedBeforeLoad ==
    Staged =>
        /\ Before(call.events, "write", "flush")
        /\ Before(call.events, "flush", "load")
        /\ platform = "Windows" => Before(call.events, "close", "load")
        /\ Has(call.events, "remove") => Before(call.events, "load", "remove")

====
